---- MODULE Spec2Model ----
(***************************************************************************)
(* Dithering engine of liaxon/dithering (src/dither.py): the palette       *)
(* nearest-match operations of ColorScheme / UniformColorScheme and the    *)
(* four pixel-scan strategies dither_do_nothing, dither_closest,           *)
(* dither_floyd_steinberg and dither_no_touch.                             *)
(*                                                                         *)
(* Numbers.  image[i, j] + error[i, j] is a float64 triple.  Every value   *)
(* the scan produces is a multiple of 1/16^width (each diffusion hop       *)
(* multiplies by k/16), which float64 represents exactly at the widths     *)
(* modelled here.  The model stores such a value v as the integer v*Scale, *)
(* Scale = 16^MaxW, so the arithmetic is exact as in the code.  Squared    *)
(* distances exceed 32 bits and are kept as three limbs in base Base.      *)
(***************************************************************************)
EXTENDS Integers, Sequences, FiniteSets, TLC

VARIABLES style, colorscheme, input, image, width, height, newimage, error,
          i, j, color, excludedcolors, newcolor, returned, pc

vars == <<style, colorscheme, input, image, width, height, newimage, error,
          i, j, color, excludedcolors, newcolor, returned, pc>>

\* Largest image width, height and number of pixels the scan is run on.
MaxW == 3
MaxH == 2
MaxCells == 6

\* Fixed-point unit: a float value v is stored as v * Scale.
Scale == 16 ^ MaxW

\* Limb base of the squared distances.
Base == 2 ^ 13

\* Python's None (bestcolor before any candidate), and an np.empty cell.
None == <<>>
Empty == <<>>
\* float("inf"), the initial bestdist.
Inf == <<>>

Abs(x) == IF x < 0 THEN -x ELSE x

----------------------------------------------------------------------------
(* Colour arithmetic *)

\* An integer colour as a float triple (numpy's int -> float64 promotion).
ToFloat(c) == [k \in 1..3 |-> c[k] * Scale]

\* a + b and a - b on float triples.
Plus(a, b) == [k \in 1..3 |-> a[k] + b[k]]
Minus(a, b) == [k \in 1..3 |-> a[k] - b[k]]

\* extracolor*w/16
Weighted(extracolor, w) == [k \in 1..3 |-> (extracolor[k] * w) \div 16]

\* x*x as limbs <<high, middle, low>> in base Base (not normalised).
Square(x) ==
    LET a == Abs(x)
        a1 == a \div Base
        a0 == a % Base
    IN  <<a1 * a1, 2 * a1 * a0, a0 * a0>>

\* np.sum(np.square(newcolor - othercolor)), normalised limbs.
Dist(nc, othercolor) ==
    LET s(k) == Square(nc[k] * Scale - othercolor[k])
        l3 == s(1)[3] + s(2)[3] + s(3)[3]
        l2 == s(1)[2] + s(2)[2] + s(3)[2] + (l3 \div Base)
        l1 == s(1)[1] + s(2)[1] + s(3)[1] + (l2 \div Base)
    IN  <<l1, l2 % Base, l3 % Base>>

\* dist <= bestdist: the comparison a tie-to-the-later-entry slip would make.
DistLessEq(d, bestdist) ==
    \/ bestdist = Inf
    \/ d[1] < bestdist[1]
    \/ d[1] = bestdist[1] /\ d[2] < bestdist[2]
    \/ d[1] = bestdist[1] /\ d[2] = bestdist[2] /\ d[3] <= bestdist[3]

\* dist < bestdist
DistLess(d, bestdist) ==
    \/ bestdist = Inf
    \/ d[1] < bestdist[1]
    \/ d[1] = bestdist[1] /\ d[2] < bestdist[2]
    \/ d[1] = bestdist[1] /\ d[2] = bestdist[2] /\ d[3] < bestdist[3]

----------------------------------------------------------------------------
(* Palettes *)

\* isin with the loop left after its first item.
isinFirstOnly(item, list) == Len(list) >= 1 /\ item = list[1]

\* isin(item, list): np.array_equal against every list item.
isin(item, list) == \E n \in 1..Len(list) : item = list[n]

RECURSIVE getClosestLoop(_, _, _, _, _)
getClosestLoop(colors, othercolor, n, bestdist, bestcolor) ==
    IF n > Len(colors) THEN bestcolor
    ELSE LET nc == colors[n]
             dist == Dist(nc, othercolor)
         IN  IF DistLess(dist, bestdist)
             THEN getClosestLoop(colors, othercolor, n + 1, dist, nc)
             ELSE getClosestLoop(colors, othercolor, n + 1, bestdist, bestcolor)

\* ColorScheme.getClosest
getClosest(colors, othercolor) == getClosestLoop(colors, othercolor, 1, Inf, None)

RECURSIVE getClosestWithExclusionLoop(_, _, _, _, _, _)
getClosestWithExclusionLoop(colors, othercolor, notcolors, n, bestdist, bestcolor) ==
    IF n > Len(colors) THEN bestcolor
    ELSE LET nc == colors[n]
             dist == Dist(nc, othercolor)
         IN  IF isin(nc, notcolors)
             THEN getClosestWithExclusionLoop(colors, othercolor, notcolors, n + 1,
                                              bestdist, bestcolor)
             ELSE IF DistLess(dist, bestdist)
             THEN getClosestWithExclusionLoop(colors, othercolor, notcolors, n + 1,
                                              dist, nc)
             ELSE getClosestWithExclusionLoop(colors, othercolor, notcolors, n + 1,
                                              bestdist, bestcolor)

\* ColorScheme.getClosestWithExclusion; None stands for the RuntimeError raised
\* when bestcolor is None after the loop.
getClosestWithExclusion(colors, othercolor, notcolors) ==
    getClosestWithExclusionLoop(colors, othercolor, notcolors, 1, Inf, None)

\* dist <= bestdist on one channel (bestdist is <<d>>, or Inf).
ShadeLessEq(d, bestdist) == bestdist = Inf \/ d <= bestdist[1]

\* dist < bestdist on one channel.
ShadeLess(d, bestdist) == bestdist = Inf \/ d < bestdist[1]

RECURSIVE bestShadeLoop(_, _, _, _, _)
bestShadeLoop(shades, v, n, bestdist, bestshade) ==
    IF n > Len(shades) THEN bestshade
    ELSE LET newshade == shades[n]
             dist == Abs(newshade * Scale - v)
         IN  IF ShadeLess(dist, bestdist)
             THEN bestShadeLoop(shades, v, n + 1, <<dist>>, newshade)
             ELSE bestShadeLoop(shades, v, n + 1, bestdist, bestshade)

\* UniformColorScheme.getClosest: each channel's nearest shade.
UniformGetClosest(shades, othercolor) ==
    [k \in 1..3 |-> bestShadeLoop(shades, othercolor[k], 1, Inf, None)]

\* ColorScheme(*colors)
ColorScheme(colors) == [uniform |-> FALSE, shades |-> <<>>, colors |-> colors]

\* UniformColorScheme(*shades): colors is shades x shades x shades, R outer,
\* G middle, B inner.
UniformColorScheme(shades) ==
    LET n == Len(shades)
    IN  [uniform |-> TRUE, shades |-> shades,
         colors |-> [m \in 1..(n * n * n) |->
                        <<shades[((m - 1) \div (n * n)) + 1],
                          shades[(((m - 1) \div n) % n) + 1],
                          shades[((m - 1) % n) + 1]>>]]

\* colorscheme.getClosest(c) with the subclass override.
SchemeGetClosest(cs, othercolor) ==
    IF cs.uniform THEN UniformGetClosest(cs.shades, othercolor)
    ELSE getClosest(cs.colors, othercolor)

\* defaultschemes, and the schemes of the tests.
Schemes ==
    { ColorScheme(<< <<0, 0, 0>>, <<255, 255, 255>> >>),
      ColorScheme(<< <<0, 0, 0>>, <<120, 120, 120>>, <<255, 255, 255>> >>),
      ColorScheme(<< <<0, 0, 0>>, <<255, 0, 0>>, <<0, 255, 0>>, <<0, 0, 255>>,
                     <<255, 255, 255>> >>),
      ColorScheme(<< <<120, 120, 120>> >>),
      ColorScheme(<< <<0, 0, 0>>, <<100, 100, 100>>, <<255, 255, 255>> >>),
      UniformColorScheme(<<0, 120, 255>>) }

\* Pixel values of the input images.
PixelColors == { <<0, 0, 0>>, <<100, 200, 10>>, <<255, 255, 255>> }

\* A further pixel value, tried on single-pixel images (test_dither_simple).
SinglePixelColors == { <<100, 100, 0>> }

----------------------------------------------------------------------------
(* Pixel grids *)

\* The index set of an array of shape (w, h, 3).
Cells(w, h) == (0..(w - 1)) \X (0..(h - 1))

\* img[y, x] = c: the indices transposed.
StoreTransposed(img, x, y, c) == [p \in (DOMAIN img) \cup {<<y, x>>} |->
                                     IF p = <<y, x>> THEN c ELSE img[p]]

\* img[x, y] = c
Store(img, x, y, c) == [img EXCEPT ![<<x, y>>] = c]

\* err[x, y] += delta
AddTo(err, x, y, delta) == [err EXCEPT ![<<x, y>>] = Plus(@, delta)]

\* The input images of shape (w, h, 3).
Images(w, h) ==
    [Cells(w, h) -> IF w * h = 1 THEN PixelColors \cup SinglePixelColors
                    ELSE PixelColors]

\* The exclusion list built with i >= 0 for i >= 1: at x = 0 the index x - 1
\* is -1, which numpy wraps to the last column.
ExcludedWrap(img, x, y) ==
    LET last == CHOOSE m \in {p[1] : p \in DOMAIN img} :
                    \A p \in DOMAIN img : p[1] <= m
    IN  (IF x >= 1 THEN << img[<<x - 1, y>>] >> ELSE << img[<<last, y>>] >>)
        \o (IF y >= 1 THEN << img[<<x, y - 1>>] >> ELSE <<>>)

\* The exclusion list with the diagonal neighbour excluded as well.
ExcludedWithDiagonal(img, x, y) ==
    (IF x >= 1 THEN << img[<<x - 1, y>>] >> ELSE <<>>)
    \o (IF y >= 1 THEN << img[<<x, y - 1>>] >> ELSE <<>>)
    \o (IF x >= 1 /\ y >= 1 THEN << img[<<x - 1, y - 1>>] >> ELSE <<>>)

\* The exclusion list with the top neighbour forgotten.
ExcludedLeftOnly(img, x, y) ==
    IF x >= 1 THEN << img[<<x - 1, y>>] >> ELSE <<>>

\* excludedcolors of pixel (x, y): the left and the top neighbour's new colour.
Excluded(img, x, y) ==
    (IF x >= 1 THEN << img[<<x - 1, y>>] >> ELSE <<>>)
    \o (IF y >= 1 THEN << img[<<x, y - 1>>] >> ELSE <<>>)

\* The diffusion with the three lower shares sent to row y + 1 instead of y - 1.
DiffuseDownward(err, x, y, w, extracolor) ==
    [p \in DOMAIN err |->
        IF p = <<x + 1, y>> THEN Plus(err[p], Weighted(extracolor, 7))
        ELSE IF p = <<x - 1, y + 1>> THEN Plus(err[p], Weighted(extracolor, 3))
        ELSE IF p = <<x, y + 1>> THEN Plus(err[p], Weighted(extracolor, 5))
        ELSE IF p = <<x + 1, y + 1>> THEN Plus(err[p], Weighted(extracolor, 1))
        ELSE err[p]]

\* The four error[..] += extracolor*w/16 statements of one pixel.
Diffuse(err, x, y, w, extracolor) ==
    LET e1 == IF x + 1 < w THEN AddTo(err, x + 1, y, Weighted(extracolor, 7))
              ELSE err
        e2 == IF x - 1 >= 0 /\ y - 1 >= 0
              THEN AddTo(e1, x - 1, y - 1, Weighted(extracolor, 3)) ELSE e1
        e3 == IF y - 1 >= 0 THEN AddTo(e2, x, y - 1, Weighted(extracolor, 5))
              ELSE e2
        e4 == IF x + 1 < w /\ y - 1 >= 0
              THEN AddTo(e3, x + 1, y - 1, Weighted(extracolor, 1)) ELSE e3
    IN  e4

----------------------------------------------------------------------------
(* The strategies *)

Styles == {"none", "closest", "floydsteinberg", "notouch"}

\* The call image_action(image, colorscheme, verbose) is entered: for the two
\* diffusion strategies newimage = np.empty(..) and error = np.zeros(..).
Init ==
    /\ style \in Styles
    /\ colorscheme \in Schemes
    /\ width \in 0..MaxW
    /\ height \in 0..MaxH
    /\ width * height <= MaxCells
    /\ image \in Images(width, height)
    /\ input = image
    /\ newimage = [p \in Cells(width, height) |-> Empty]
    /\ error = [p \in Cells(width, height) |-> <<0, 0, 0>>]
    /\ i = 0
    /\ j = 0
    /\ color = None
    /\ excludedcolors = <<>>
    /\ newcolor = None
    /\ returned = "nothing"
    /\ pc = "run"

\* Both loops have run out: for j in range(height): for i in range(width).
Finished == width = 0 \/ j >= height

\* The next (i, j) of the row-major scan.
Advance ==
    IF i + 1 < width THEN i' = i + 1 /\ j' = j
    ELSE i' = 0 /\ j' = j + 1

\* dither_do_nothing: return image
dither_do_nothing ==
    /\ pc = "run"
    /\ style = "none"
    /\ returned' = "image"
    /\ pc' = "done"
    /\ UNCHANGED <<style, colorscheme, input, image, width, height, newimage,
                   error, i, j, color, excludedcolors, newcolor>>

\* One iteration of dither_closest's inner loop.
dither_closest ==
    /\ pc = "run"
    /\ style = "closest"
    /\ ~Finished
    /\ color' = ToFloat(image[<<i, j>>])
    /\ newcolor' = SchemeGetClosest(colorscheme, color')
    /\ image' = Store(image, i, j, newcolor')
    /\ Advance
    /\ UNCHANGED <<style, colorscheme, input, width, height, newimage, error,
                   excludedcolors, returned, pc>>

\* One iteration of the inner loop shared, line for line, by
\* dither_floyd_steinberg and dither_no_touch.
DiffusionBody ==
    /\ pc = "run"
    /\ ~Finished
    /\ color' = Plus(ToFloat(image[<<i, j>>]), error[<<i, j>>])
    /\ excludedcolors' = Excluded(newimage, i, j)
    /\ newcolor' = getClosestWithExclusion(colorscheme.colors, color',
                                           excludedcolors')
    /\ IF newcolor' = None
       THEN /\ pc' = "raised"
            /\ UNCHANGED <<newimage, error, i, j>>
       ELSE /\ newimage' = Store(newimage, i, j, newcolor')
            /\ error' = Diffuse(error, i, j, width,
                                Minus(color', ToFloat(newcolor')))
            /\ Advance
            /\ pc' = pc
    /\ UNCHANGED <<style, colorscheme, input, image, width, height, returned>>

dither_floyd_steinberg == style = "floydsteinberg" /\ DiffusionBody

dither_no_touch == style = "notouch" /\ DiffusionBody

\* return image (dither_closest) or return newimage (the diffusion strategies).
Return ==
    /\ pc = "run"
    /\ style # "none"
    /\ Finished
    /\ returned' = IF style = "closest" THEN "image" ELSE "newimage"
    /\ pc' = "done"
    /\ UNCHANGED <<style, colorscheme, input, image, width, height, newimage,
                   error, i, j, color, excludedcolors, newcolor>>

\* The grid the call hands back.
Result == IF returned = "image" THEN image ELSE newimage

Next ==
    \/ dither_do_nothing
    \/ dither_closest
    \/ dither_floyd_steinberg
    \/ dither_no_touch
    \/ Return

Spec == Init /\ [][Next]_vars

----------------------------------------------------------------------------
(* The palette operations called on their own *)

\* The schemes of Schemes and of tests.py, and two more shade sequences.
QuerySchemes ==
    Schemes \cup
    { ColorScheme(<< <<0, 0, 0>>, <<255, 255, 255>>, <<255, 0, 0>> >>),
      ColorScheme(<< <<0, 0, 0>>, <<100, 100, 100>>, <<255, 255, 255>> >>),
      UniformColorScheme(<<0, 100, 255>>),
      UniformColorScheme(<<200, 0>>) }

\* Channel values of the colours asked for (floats, in units of 1/Scale): below 0,
\* above 255, and halfway between two shades.
QueryChannels ==
    { -40 * Scale, 0, 50 * Scale, 60 * Scale, 100 * Scale,
      (255 * Scale) \div 2, 300 * Scale }

QueryColors == { <<r, g, b>> : r \in QueryChannels, g \in QueryChannels,
                               b \in QueryChannels }

\* Colours that may be excluded; <<7, 7, 7>> is in no palette.
ExclusionColors == { <<0, 0, 0>>, <<120, 120, 120>>, <<255, 255, 255>>,
                     <<7, 7, 7>> }

\* The notcolors lists tried on scheme cs: up to two colours, or all of cs.colors.
ExclusionLists(cs) ==
    {<<>>} \cup { <<a>> : a \in ExclusionColors }
    \cup { <<a, b>> : a \in ExclusionColors, b \in ExclusionColors }
    \cup { cs.colors }

PaletteInit ==
    /\ style = "query"
    /\ colorscheme \in QuerySchemes
    /\ color \in QueryColors
    /\ width = 0
    /\ height = 0
    /\ image = [p \in Cells(0, 0) |-> Empty]
    /\ input = image
    /\ newimage = image
    /\ error = image
    /\ i = 0
    /\ j = 0
    /\ excludedcolors = <<>>
    /\ newcolor = None
    /\ returned = "nothing"
    /\ pc = "query"

\* ColorScheme.getClosest(color) on the scheme's colors.
CallGetClosest ==
    /\ pc = "query"
    /\ newcolor' = getClosest(colorscheme.colors, color)
    /\ pc' = "getClosest"
    /\ UNCHANGED <<style, colorscheme, input, image, width, height, newimage,
                   error, i, j, color, excludedcolors, returned>>

\* ColorScheme.getClosestWithExclusion(color, notcolors)
CallGetClosestWithExclusion ==
    /\ pc = "query"
    /\ \E notcolors \in ExclusionLists(colorscheme) :
          /\ excludedcolors' = notcolors
          /\ newcolor' = getClosestWithExclusion(colorscheme.colors, color,
                                                 notcolors)
    /\ pc' = IF newcolor' = None THEN "raised" ELSE "getClosestWithExclusion"
    /\ UNCHANGED <<style, colorscheme, input, image, width, height, newimage,
                   error, i, j, color, returned>>

\* UniformColorScheme.getClosest(color)
CallUniformGetClosest ==
    /\ pc = "query"
    /\ colorscheme.uniform
    /\ newcolor' = UniformGetClosest(colorscheme.shades, color)
    /\ pc' = "UniformGetClosest"
    /\ UNCHANGED <<style, colorscheme, input, image, width, height, newimage,
                   error, i, j, color, excludedcolors, returned>>

PaletteNext ==
    \/ CallGetClosest
    \/ CallGetClosestWithExclusion
    \/ CallUniformGetClosest

PaletteSpec == PaletteInit /\ [][PaletteNext]_vars

----------------------------------------------------------------------------
(* Properties *)

Palette == { colorscheme.colors[n] : n \in DOMAIN colorscheme.colors }

InList(c, list) == \E n \in DOMAIN list : list[n] = c

\* a < b on normalised limb triples.
LimbLess(a, b) ==
    \/ a[1] < b[1]
    \/ a[1] = b[1] /\ a[2] < b[2]
    \/ a[1] = b[1] /\ a[2] = b[2] /\ a[3] < b[3]

Diffusing == style \in {"floydsteinberg", "notouch"}

\* The pixels the scan has written so far.
Committed == { p \in DOMAIN newimage : newimage[p] # Empty }

\* C1: in dither_no_touch with a palette of at least 3 colours, after every step
\* and on return, every committed pixel has a committed left and top neighbour
\* (where they exist) and differs in colour from each of them.
C1_NoTouchAdjacency ==
    (style = "notouch" /\ Len(colorscheme.colors) >= 3) =>
        \A p \in Committed :
            /\ p[1] > 0 => /\ <<p[1] - 1, p[2]>> \in Committed
                           /\ newimage[p] # newimage[<<p[1] - 1, p[2]>>]
            /\ p[2] > 0 => /\ <<p[1], p[2] - 1>> \in Committed
                           /\ newimage[p] # newimage[<<p[1], p[2] - 1>>]

\* dither_no_touch has returned a grid with interior pixels, 3 or more colours.
C1_Witness ==
    /\ style = "notouch"
    /\ pc = "done"
    /\ Len(colorscheme.colors) >= 3
    /\ width >= 2
    /\ height >= 2
    /\ Committed = Cells(width, height)

\* C2: the pixel dither_floyd_steinberg has just written was given the
\* unrestricted nearest palette colour of its adjusted colour, with no colour
\* excluded because of a neighbour.
C2_FloydSteinbergUnrestricted ==
    (style = "floydsteinberg" /\ color # None /\ pc # "raised") =>
        newcolor = SchemeGetClosest(colorscheme, color)

\* The error buffer the claim describes after pixel (x, y): right 7/16,
\* below-left 3/16, below 5/16, below-right 1/16, targets off the grid skipped.
ClaimedDiffuse(err, x, y, extracolor) ==
    [p \in DOMAIN err |->
        IF p = <<x + 1, y>> THEN Plus(err[p], Weighted(extracolor, 7))
        ELSE IF p = <<x - 1, y + 1>> THEN Plus(err[p], Weighted(extracolor, 3))
        ELSE IF p = <<x, y + 1>> THEN Plus(err[p], Weighted(extracolor, 5))
        ELSE IF p = <<x + 1, y + 1>> THEN Plus(err[p], Weighted(extracolor, 1))
        ELSE err[p]]

\* C3: each pixel a diffusion strategy processes adds its residue to the right,
\* below-left, below and below-right neighbours with weights 7, 3, 5, 1 over 16,
\* and changes no other cell of the error buffer (no visited cell is written).
C3_DiffusionTargets ==
    [][(Diffusing /\ pc = "run" /\ <<i', j'>> # <<i, j>>) =>
          error' = ClaimedDiffuse(error, i, j,
                                  Minus(color', ToFloat(newcolor')))]_vars

\* C4: getClosestWithExclusion fails exactly when every palette entry is
\* excluded; otherwise it returns a palette entry that is not excluded and that
\* no other entry outside the exclusion list is strictly closer than.
C4_ClosestWithExclusion ==
    (pc \in {"getClosestWithExclusion", "raised"}) =>
        /\ pc = "raised" <=> \A c \in Palette : InList(c, excludedcolors)
        /\ pc = "getClosestWithExclusion" =>
              /\ newcolor \in Palette
              /\ ~InList(newcolor, excludedcolors)
              /\ \A c \in Palette :
                    ~InList(c, excludedcolors) =>
                        ~LimbLess(Dist(c, color), Dist(newcolor, color))

\* Two colours are excluded, the overall nearest entry among them.
C4_Witness ==
    /\ pc = "getClosestWithExclusion"
    /\ Len(excludedcolors) = 2
    /\ excludedcolors[1] # excludedcolors[2]
    /\ InList(getClosest(colorscheme.colors, color), excludedcolors)
    /\ \E k \in 1..3 : color[k] < 0 \/ color[k] > 255 * Scale

\* C5: getClosest returns a palette entry at minimal squared distance, the
\* earliest such entry in palette order, and never fails.
C5_ClosestMinimalEarliest ==
    pc = "getClosest" =>
        \E n \in DOMAIN colorscheme.colors :
            /\ newcolor = colorscheme.colors[n]
            /\ \A m \in DOMAIN colorscheme.colors :
                  /\ ~LimbLess(Dist(colorscheme.colors[m], color),
                               Dist(newcolor, color))
                  /\ m < n => LimbLess(Dist(newcolor, color),
                                       Dist(colorscheme.colors[m], color))

\* An out-of-range colour at the same distance from two palette entries.
C5_Witness ==
    /\ pc = "getClosest"
    /\ \E k \in 1..3 : color[k] < 0 \/ color[k] > 255 * Scale
    /\ \E c \in Palette : c # newcolor /\ Dist(c, color) = Dist(newcolor, color)

\* C6: on a UniformColorScheme the per-channel getClosest returns the colour the
\* brute-force ColorScheme.getClosest returns on the expanded palette.
C6_UniformEquivalence ==
    pc = "UniformGetClosest" => newcolor = getClosest(colorscheme.colors, color)

\* A channel value halfway between two shades, the earlier shade taken.
C6_Witness ==
    /\ pc = "UniformGetClosest"
    /\ \E k \in 1..3 :
          \E m, n \in DOMAIN colorscheme.shades :
              /\ m < n
              /\ newcolor[k] = colorscheme.shades[m]
              /\ colorscheme.shades[m] # colorscheme.shades[n]
              /\ Abs(colorscheme.shades[m] * Scale - color[k])
                   = Abs(colorscheme.shades[n] * Scale - color[k])

\* C7: when dither_closest, dither_floyd_steinberg or dither_no_touch returns,
\* the result has the input's shape and every pixel of it is a palette entry.
C7_OutputValidity ==
    (pc = "done" /\ style \in {"closest", "floydsteinberg", "notouch"}) =>
        /\ DOMAIN Result = DOMAIN input
        /\ DOMAIN Result = Cells(width, height)
        /\ \A p \in DOMAIN Result : Result[p] \in Palette

\* A diffusion strategy has returned and its last adjusted colour was out of
\* the range 0..255.
C7_Witness ==
    /\ pc = "done"
    /\ Diffusing
    /\ width * height >= 4
    /\ \E k \in 1..3 : color[k] < 0
    /\ \E k \in 1..3 : color[k] > 255 * Scale

\* C8: with at least 3 distinct colours dither_no_touch never raises: the
\* exclusion list holds at most 2 colours and leaves a palette entry free, and
\* the returned grid is fully written.
C8_NoTouchNeverExhausted ==
    (style = "notouch" /\ Cardinality(Palette) >= 3) =>
        /\ pc # "raised"
        /\ Len(excludedcolors) <= 2
        /\ \E c \in Palette : ~InList(c, excludedcolors)
        /\ pc = "done" => Committed = Cells(width, height)

\* A pixel of a 3-colour run had two different colours excluded.
C8_Witness ==
    /\ style = "notouch"
    /\ Cardinality(Palette) = 3
    /\ pc = "done"
    /\ Len(excludedcolors) = 2
    /\ excludedcolors[1] # excludedcolors[2]

\* C9 as stated: dither_no_touch with a 2-colour palette on a grid with
\* width >= 2 and height >= 2 raises mid-run, so it never returns.
C9_TwoColourFails ==
    (style = "notouch" /\ Len(colorscheme.colors) = 2 /\ width >= 2
        /\ height >= 2) => pc # "done"

\* C9 amended: with 2 distinct colours dither_no_touch never raises, because
\* the left and top neighbour of a pixel always hold the same colour; with a
\* single colour it raises at the second pixel, whose exclusion list is the
\* whole palette, and returns only for grids of at most one pixel.
C9_TwoColourCheckerboard ==
    style = "notouch" =>
        /\ Cardinality(Palette) = 2 =>
              /\ pc # "raised"
              /\ Len(excludedcolors) = 2 => excludedcolors[1] = excludedcolors[2]
              /\ pc = "done" => Committed = Cells(width, height)
        /\ Cardinality(Palette) = 1 =>
              /\ pc = "done" => width * height <= 1
              /\ pc = "raised" =>
                    /\ Cardinality(Committed) = 1
                    /\ \A c \in Palette : InList(c, excludedcolors)

\* A 2-colour run over a grid with an interior pixel has returned.
C9_Witness ==
    /\ style = "notouch"
    /\ Cardinality(Palette) = 2
    /\ width >= 2
    /\ height >= 2
    /\ pc = "done"
    /\ Len(excludedcolors) = 2

\* C10: dither_closest and dither_floyd_steinberg never raise the
\* exhausted-palette error, whatever the grid and the non-empty palette.
C10_Totality ==
    style \in {"closest", "floydsteinberg"} => pc # "raised"

\* The pixels dither_closest has replaced so far (row-major, before (i, j)).
Visited == { p \in DOMAIN input : p[2] < j \/ (p[2] = j /\ p[1] < i) }

\* C11 as stated: dither_do_nothing hands back the caller's buffer, and each of
\* dither_closest, dither_floyd_steinberg and dither_no_touch leaves every pixel
\* of the caller's grid unchanged at every step and returns a new grid.
C11_InputUntouched ==
    /\ (style = "none" /\ pc = "done") => returned = "image"
    /\ style \in {"closest", "floydsteinberg", "notouch"} =>
          /\ image = input
          /\ pc = "done" => returned = "newimage"

\* C11 amended: dither_do_nothing and dither_closest hand back the caller's own
\* buffer; dither_closest overwrites it in place, every visited pixel holding
\* the nearest palette colour of its original value and every other pixel its
\* original value; dither_floyd_steinberg and dither_no_touch leave the
\* caller's grid unchanged at every step and return the new grid.
C11_Ownership ==
    /\ style \in {"none", "closest"} => (pc = "done" => returned = "image")
    /\ style = "none" => image = input
    /\ style = "closest" =>
          /\ DOMAIN image = DOMAIN input
          /\ \A p \in DOMAIN input :
                image[p] = IF p \in Visited
                           THEN SchemeGetClosest(colorscheme, ToFloat(input[p]))
                           ELSE input[p]
    /\ Diffusing =>
          /\ image = input
          /\ pc = "done" => returned = "newimage"

\* dither_closest has returned the caller's buffer with pixels changed in it.
C11_Witness ==
    /\ style = "closest"
    /\ pc = "done"
    /\ returned = "image"
    /\ width * height >= 4
    /\ \E p \in DOMAIN input : image[p] # input[p]

\* C12: on a 1x1 grid dither_closest, dither_floyd_steinberg and dither_no_touch
\* never raise and return the 1x1 grid holding palette.getClosest of the
\* pixel: the adjusted colour is the pixel itself, no colour is excluded and
\* the error buffer stays zero; palette (0,0,0), (100,100,100), (255,255,255)
\* and pixel (100,100,0) give (100,100,100).
C12_SinglePixel ==
    (width = 1 /\ height = 1
        /\ style \in {"closest", "floydsteinberg", "notouch"}) =>
        /\ pc # "raised"
        /\ pc = "done" =>
              /\ DOMAIN Result = {<<0, 0>>}
              /\ Result[<<0, 0>>] =
                    SchemeGetClosest(colorscheme, ToFloat(input[<<0, 0>>]))
              /\ color = ToFloat(input[<<0, 0>>])
              /\ excludedcolors = <<>>
              /\ error = [p \in Cells(1, 1) |-> <<0, 0, 0>>]
              /\ (/\ colorscheme.colors = << <<0, 0, 0>>, <<100, 100, 100>>,
                                             <<255, 255, 255>> >>
                  /\ input[<<0, 0>>] = <<100, 100, 0>>) =>
                    Result[<<0, 0>>] = <<100, 100, 100>>

\* The scenario of test_dither_simple has been run by dither_no_touch.
C12_Witness ==
    /\ width = 1
    /\ height = 1
    /\ style = "notouch"
    /\ pc = "done"
    /\ colorscheme.colors = << <<0, 0, 0>>, <<100, 100, 100>>,
                               <<255, 255, 255>> >>
    /\ input[<<0, 0>>] = <<100, 100, 0>>
    /\ Result[<<0, 0>>] = <<100, 100, 100>>

\* The residue color - newcolor of the pixel processed last.
LastResidue == Minus(color, ToFloat(newcolor))

\* C13: while a diffusion strategy scans, the error of every pixel not yet
\* processed is 0, except that of the pixel (i, j) about to be read when
\* i > 0, which is exactly 7/16 of the residue of pixel (i-1, j): all other
\* error writes have landed on processed cells, and no error crosses rows.
C13_OnlyRightShareIsRead ==
    (Diffusing /\ pc = "run") =>
        \A p \in (DOMAIN error) \ Committed :
            error[p] = IF p = <<i, j>> /\ i > 0
                       THEN [k \in 1..3 |-> (LastResidue[k] * 7) \div 16]
                       ELSE <<0, 0, 0>>

\* In the second row, a non-zero error is about to be read at a pixel with a
\* left neighbour, and pixel (0, 0), long processed, has been written to.
C13_Witness ==
    /\ Diffusing
    /\ pc = "run"
    /\ j = 1
    /\ i >= 1
    /\ i < width
    /\ error[<<i, j>>] # <<0, 0, 0>>
    /\ error[<<0, 0>>] # <<0, 0, 0>>
    /\ <<0, 0>> \in Committed

====
